---- MODULE Spec2Model ----
(***************************************************************************)
(* A model of src/dataclass_snippet.py: the frozen dataclass               *)
(* ScenarioParameters and the Monte Carlo runner SimpleMonteCarloED.       *)
(*                                                                         *)
(* Numbers.  The program computes with floats; the model computes with     *)
(* integers.  A probability p is kept as the integer p * ProbScale, and a  *)
(* mean as its integer value.                                              *)
(*                                                                         *)
(* numpy.random.RandomState.  The generator is a deterministic stream: a   *)
(* seed fixes the state, every sample reads the state and moves it one     *)
(* step on, and the stream repeats after Period samples.  A sample of the  *)
(* unit interval is Uniform(s), one of 0 .. ProbScale-1 (standing for      *)
(* Uniform(s) / ProbScale); exponential(scale) is scale times the          *)
(* quantile of that sample and binomial(1, p) is 1 when the sample is      *)
(* below p.  exponential raises ValueError for a negative scale (it takes  *)
(* scale = 0 and returns zeros), binomial raises ValueError for p outside  *)
(* [0, 1], and both raise ValueError for a negative size; a call that      *)
(* raises draws nothing.                                                   *)
(***************************************************************************)
EXTENDS Integers, Sequences, FiniteSets

(* ------------------------------ bounds --------------------------------- *)

\* simulate is called with n_patients in -1 .. MaxPatients
MaxPatients == 2

\* the generator's stream repeats after Period samples
Period == 8

\* a probability p is the integer p * ProbScale
ProbScale == 10

(* ------------------------- program constants --------------------------- *)

DEFAULT_MEAN_PROCESS_TIME == 150

DEFAULT_MEAN_DTA == 120

\* 0.4
DEFAULT_P_ADMIT == (4 * ProbScale) \div 10

SEED == 909

(* ------------------------- ScenarioParameters -------------------------- *)

Fields == {"name", "mean_process_time", "mean_dta", "p_admit"}

\* ScenarioParameters(name, mean_process_time=150.0, mean_dta=120.0, p_admit=0.4)
ScenarioParameters(name, mean_process_time, mean_dta, p_admit) ==
    [name |-> name, mean_process_time |-> mean_process_time,
     mean_dta |-> mean_dta, p_admit |-> p_admit]

Baseline ==
    ScenarioParameters("baseline", DEFAULT_MEAN_PROCESS_TIME, DEFAULT_MEAN_DTA,
                       DEFAULT_P_ADMIT)

\* ScenarioParameters('flu_pandemic', 160.0, 180.0, 0.7)
FluPandemic ==
    ScenarioParameters("flu_pandemic", 160, 180, (7 * ProbScale) \div 10)

\* the scenarios of __main__, which every simulator of the model can be given
MainScenarios == {Baseline, FluPandemic}

\* the dataclass validates nothing: any values construct an instance
Scenarios ==
    MainScenarios \cup
    { ScenarioParameters("nobody_admitted", DEFAULT_MEAN_PROCESS_TIME,
                         DEFAULT_MEAN_DTA, 0),
      ScenarioParameters("all_admitted", DEFAULT_MEAN_PROCESS_TIME,
                         DEFAULT_MEAN_DTA, ProbScale),
      ScenarioParameters("zero_process_time", 0, DEFAULT_MEAN_DTA,
                         DEFAULT_P_ADMIT),
      ScenarioParameters("negative_process_time", 0 - DEFAULT_MEAN_PROCESS_TIME,
                         DEFAULT_MEAN_DTA, DEFAULT_P_ADMIT),
      ScenarioParameters("negative_dta", DEFAULT_MEAN_PROCESS_TIME,
                         0 - DEFAULT_MEAN_DTA, DEFAULT_P_ADMIT),
      ScenarioParameters("p_above_one", DEFAULT_MEAN_PROCESS_TIME,
                         DEFAULT_MEAN_DTA, ProbScale + 5),
      ScenarioParameters("p_below_zero", DEFAULT_MEAN_PROCESS_TIME,
                         DEFAULT_MEAN_DTA, 0 - 1) }

\* @dataclass(frozen=True)
NotFrozen == FALSE

Frozen == TRUE

\* the values a caller tries to write into a field
NewValues(f) == IF f = "name" THEN {"renamed"} ELSE {10000}

\* the generated __setattr__ of the dataclass: frozen, it raises
\* FrozenInstanceError and writes nothing
DataclassSetattr(obj, f, v) ==
    IF Frozen
    THEN [raised |-> "FrozenInstanceError", obj |-> obj]
    ELSE [raised |-> "", obj |-> [obj EXCEPT ![f] = v]]

(* ------------------------ numpy.random.RandomState --------------------- *)

\* RandomState(seed): <<>> stands for None, <<k>> for the integer k.  A seed
\* fixes the state; without one the state comes from the system's entropy.
Seeds == {<<>>, <<SEED>>, <<SEED + 1>>}

RandomStateUnseeded(random_state) == 0 .. (Period - 1)

RandomState(random_state) ==
    IF random_state = <<>> THEN 0 .. (Period - 1)
    ELSE {random_state[1] % Period}

AdvanceNot(s, k) == s

\* the state k samples after s
Advance(s, k) == (s + k) % Period

\* the sample of the unit interval the generator gives in state s
Uniform(s) == (s * s * s + 2 * s + 3) % ProbScale

\* the quantile -log(1 - u) of the standard exponential, coarsened to whole
\* units: 0 at u = 0, never negative and nondecreasing in u
Quantile(u) == u \div 2

\* rs.exponential(scale, size=size)
Exponential(s, scale, size) ==
    IF scale < 0 \/ size < 0
    THEN [raised |-> TRUE, samples |-> <<>>, size |-> size, state |-> s]
    ELSE [raised |-> FALSE,
          samples |-> [k \in 1 .. size |->
                          scale * Quantile(Uniform(Advance(s, k - 1)))],
          size |-> size,
          state |-> Advance(s, size)]

\* rs.binomial(n=1, p=p, size=size)
Binomial(s, p, size) ==
    IF p < 0 \/ p > ProbScale \/ size < 0
    THEN [raised |-> TRUE, samples |-> <<>>, size |-> size, state |-> s]
    ELSE [raised |-> FALSE,
          samples |-> [k \in 1 .. size |->
                          IF Uniform(Advance(s, k - 1)) < p THEN 1 ELSE 0],
          size |-> size,
          state |-> Advance(s, size)]

(* --------------------------- SimpleMonteCarloED ------------------------ *)

Sims == {1, 2}

GeneratorShared(i) == 1

\* self._rs = RandomState(random_state): every instance owns its generator
Generator(i) == i

\* _simulate_ed_process_times
SimulateEdProcessTimes(s, p, n) == Exponential(s, p.mean_process_time, n)

\* _simulate_admission
SimulateAdmission(s, p, n) == Binomial(s, p.p_admit, n)

SimulateDtaTimesScalar(s, p, n) == Exponential(s, p.mean_dta, 1)

\* _simulate_dta_times
SimulateDtaTimes(s, p, n) == Exponential(s, p.mean_dta, n)

\* admissions == v
MaskEq(arr, v) == [k \in DOMAIN arr |-> arr[k] = v]

\* arr[mask]: the entries of arr where mask holds, in index order
RECURSIVE BoolIndex(_, _)
BoolIndex(arr, mask) ==
    IF Len(arr) = 0 THEN <<>>
    ELSE LET n == Len(arr)
             front == BoolIndex(SubSeq(arr, 1, n - 1), SubSeq(mask, 1, n - 1))
         IN IF mask[n] THEN Append(front, arr[n]) ELSE front

\* a + b, elementwise
ArrayAdd(a, b) == [k \in DOMAIN a |-> a[k] + b[k]]

ArraySub(a, b) == [k \in DOMAIN a |-> a[k] - b[k]]

EdTimesAdmitMinus(process_times, admissions, admit_delays) ==
    ArraySub(BoolIndex(process_times, MaskEq(admissions, 1)),
             BoolIndex(admit_delays, MaskEq(admissions, 1)))

\* process_times[admissions == 1] + admit_delays[admissions == 1]
EdTimesAdmit(process_times, admissions, admit_delays) ==
    ArrayAdd(BoolIndex(process_times, MaskEq(admissions, 1)),
             BoolIndex(admit_delays, MaskEq(admissions, 1)))

EdTimesNotAdmitPlusDelay(process_times, admissions, admit_delays) ==
    ArrayAdd(BoolIndex(process_times, MaskEq(admissions, 0)),
             BoolIndex(admit_delays, MaskEq(admissions, 0)))

\* process_times[admissions == 0]
EdTimesNotAdmit(process_times, admissions, admit_delays) ==
    BoolIndex(process_times, MaskEq(admissions, 0))

NpAppendSwapped(a, b) == b \o a

NpAppendFirst(a, b) == a

\* np.append(a, b)
NpAppend(a, b) == a \o b

(* -------------------------------- state -------------------------------- *)

VARIABLES
    params,         \* the ScenarioParameters instance the simulators share
    write,          \* the last attempt to assign to a field of params
    pc,             \* each simulator: "new", "idle" or the line simulate is at
    rs,             \* each generator's state
    seed,           \* the random_state each simulator was constructed with
    start,          \* each simulator's generator state right after __init__
    consumed,       \* samples each simulator has requested since __init__
    n_patients,     \* simulate's argument, of the current or the last call
    process_times,  \* simulate's locals, of the current or the last call
    admissions,
    admit_delays,
    draws,          \* the draws the current or the last call has performed
    outcome,        \* "none", "returned" or "raised", of the last call
    result          \* what the last call returned

vars ==
    <<params, write, pc, rs, seed, start, consumed, n_patients, process_times,
      admissions, admit_delays, draws, outcome, result>>

simVars ==
    <<pc, rs, seed, start, consumed, n_patients, process_times, admissions,
      admit_delays, draws, outcome, result>>

NoWrite == [field |-> "", raised |-> ""]

Init ==
    /\ params \in Scenarios
    /\ write = NoWrite
    /\ pc = [i \in Sims |-> "new"]
    /\ rs = [g \in Sims |-> 0]
    /\ seed = [i \in Sims |-> <<>>]
    /\ start = [i \in Sims |-> 0]
    /\ consumed = [i \in Sims |-> 0]
    /\ n_patients = [i \in Sims |-> 0]
    /\ process_times = [i \in Sims |-> <<>>]
    /\ admissions = [i \in Sims |-> <<>>]
    /\ admit_delays = [i \in Sims |-> <<>>]
    /\ draws = [i \in Sims |-> <<>>]
    /\ outcome = [i \in Sims |-> "none"]
    /\ result = [i \in Sims |-> <<>>]

(* ------------------------------- actions ------------------------------- *)

\* scenarios[0].mean_process_time = 10_000, for any field
SetAttr(f, v) ==
    LET r == DataclassSetattr(params, f, v)
    IN /\ params' = r.obj
       /\ write' = [field |-> f, raised |-> r.raised]
       /\ UNCHANGED simVars

\* SimpleMonteCarloED(params, random_state)
Construct(i, random_state) ==
    /\ pc[i] = "new"
    /\ \E s \in RandomState(random_state) :
          /\ rs' = [rs EXCEPT ![Generator(i)] = s]
          /\ start' = [start EXCEPT ![i] = s]
    /\ seed' = [seed EXCEPT ![i] = random_state]
    /\ pc' = [pc EXCEPT ![i] = "idle"]
    /\ UNCHANGED <<params, write, consumed, n_patients, process_times,
                   admissions, admit_delays, draws, outcome, result>>

\* simulate(n_patients) is entered
Call(i, n) ==
    /\ pc[i] = "idle"
    /\ pc' = [pc EXCEPT ![i] = "process_times"]
    /\ n_patients' = [n_patients EXCEPT ![i] = n]
    /\ process_times' = [process_times EXCEPT ![i] = <<>>]
    /\ admissions' = [admissions EXCEPT ![i] = <<>>]
    /\ admit_delays' = [admit_delays EXCEPT ![i] = <<>>]
    /\ draws' = [draws EXCEPT ![i] = <<>>]
    /\ outcome' = [outcome EXCEPT ![i] = "none"]
    /\ result' = [result EXCEPT ![i] = <<>>]
    /\ UNCHANGED <<params, write, rs, seed, start, consumed>>

\* the ValueError of a draw leaves simulate: nothing is returned
Raise(i) ==
    /\ pc' = [pc EXCEPT ![i] = "idle"]
    /\ outcome' = [outcome EXCEPT ![i] = "raised"]
    /\ UNCHANGED <<rs, consumed, draws>>

\* a draw d of kind `what` succeeded: the generator has moved on
Drawn(i, what, d, next) ==
    /\ pc' = [pc EXCEPT ![i] = next]
    /\ rs' = [rs EXCEPT ![Generator(i)] = d.state]
    /\ consumed' = [consumed EXCEPT ![i] = (@ + d.size) % Period]
    /\ draws' = [draws EXCEPT ![i] = Append(@, <<what, d.size>>)]
    /\ UNCHANGED outcome

\* process_times = self._simulate_ed_process_times(n_patients)
DrawProcessTimes(i) ==
    /\ pc[i] = "process_times"
    /\ LET d == SimulateEdProcessTimes(rs[Generator(i)], params, n_patients[i])
       IN IF d.raised
          THEN Raise(i) /\ UNCHANGED process_times
          ELSE /\ Drawn(i, "process_times", d, "admissions")
               /\ process_times' = [process_times EXCEPT ![i] = d.samples]
    /\ UNCHANGED <<params, write, seed, start, n_patients, admissions,
                   admit_delays, result>>

\* admissions = self._simulate_admission(n_patients)
DrawAdmissions(i) ==
    /\ pc[i] = "admissions"
    /\ LET d == SimulateAdmission(rs[Generator(i)], params, n_patients[i])
       IN IF d.raised
          THEN Raise(i) /\ UNCHANGED admissions
          ELSE /\ Drawn(i, "admissions", d, "admit_delays")
               /\ admissions' = [admissions EXCEPT ![i] = d.samples]
    /\ UNCHANGED <<params, write, seed, start, n_patients, process_times,
                   admit_delays, result>>

\* admit_delays = self._simulate_dta_times(n_patients)
DrawDtaTimes(i) ==
    /\ pc[i] = "admit_delays"
    /\ LET d == SimulateDtaTimes(rs[Generator(i)], params, n_patients[i])
       IN IF d.raised
          THEN Raise(i) /\ UNCHANGED admit_delays
          ELSE /\ Drawn(i, "admit_delays", d, "return")
               /\ admit_delays' = [admit_delays EXCEPT ![i] = d.samples]
    /\ UNCHANGED <<params, write, seed, start, n_patients, process_times,
                   admissions, result>>

\* what simulate returns from its three draws
EdTimes(pt, adm, ad) ==
    NpAppend(EdTimesAdmit(pt, adm, ad), EdTimesNotAdmit(pt, adm, ad))

\* the two selections and return np.append(ed_times_admit, ed_times_not_admit)
Return(i) ==
    /\ pc[i] = "return"
    /\ result' = [result EXCEPT ![i] =
                     EdTimes(process_times[i], admissions[i], admit_delays[i])]
    /\ outcome' = [outcome EXCEPT ![i] = "returned"]
    /\ pc' = [pc EXCEPT ![i] = "idle"]
    /\ UNCHANGED <<params, write, rs, seed, start, consumed, n_patients,
                   process_times, admissions, admit_delays, draws>>

\* the n_patients a caller may pass
Sizes == (0 - 1) .. MaxPatients

\* one simulator, called any number of times, and writes to its parameters
Next ==
    \/ \E f \in Fields : \E v \in NewValues(f) : SetAttr(f, v)
    \/ \E random_state \in Seeds : Construct(1, random_state)
    \/ \E n \in Sizes : Call(1, n)
    \/ DrawProcessTimes(1)
    \/ DrawAdmissions(1)
    \/ DrawDtaTimes(1)
    \/ Return(1)

Spec == Init /\ [][Next]_vars

\* __main__, its simulators side by side on one shared instance of the
\* parameters: each is constructed and runs simulate once, and the write of
\* line 118 may be tried at any moment
InitTwo == Init /\ params \in MainScenarios

CallOnce(i, n) == outcome[i] = "none" /\ Call(i, n)

NextTwo ==
    \/ \E v \in NewValues("mean_process_time") : SetAttr("mean_process_time", v)
    \/ \E i \in Sims : \E random_state \in Seeds : Construct(i, random_state)
    \/ \E i \in Sims : \E n \in Sizes : CallOnce(i, n)
    \/ \E i \in Sims : DrawProcessTimes(i)
    \/ \E i \in Sims : DrawAdmissions(i)
    \/ \E i \in Sims : DrawDtaTimes(i)
    \/ \E i \in Sims : Return(i)

SpecTwo == InitTwo /\ [][NextTwo]_vars

(* ------------------------------- claims -------------------------------- *)

\* simulator i has finished a call of simulate
Finished(i) == pc[i] = "idle" /\ outcome[i] # "none"

\* positive means and a probability in [0, 1]
ValidConfiguration(p) ==
    /\ p.mean_process_time > 0
    /\ p.mean_dta > 0
    /\ p.p_admit \in 0 .. ProbScale

Range(s) == {s[k] : k \in DOMAIN s}

\* C1, as stated: under every configuration and seed, a finished simulate(n)
\* with n >= 0 has returned, without error, a sequence of length n.
C1_LengthUnderEveryConfiguration ==
    \A i \in Sims :
        (Finished(i) /\ n_patients[i] >= 0)
            => (outcome[i] = "returned" /\ Len(result[i]) = n_patients[i])

\* C1, amended: under every valid configuration and every seed, a finished
\* simulate(n) with n >= 0 has returned, without error, a sequence of length n
\* (the empty sequence for n = 0).
C1_LengthIsNPatients ==
    \A i \in Sims :
        (Finished(i) /\ n_patients[i] >= 0 /\ ValidConfiguration(params))
            => /\ outcome[i] = "returned"
               /\ Len(result[i]) = n_patients[i]
               /\ (n_patients[i] = 0 => result[i] = <<>>)

\* a call of two or more patients returned, some admitted and some not
C1_Witness ==
    /\ Finished(1)
    /\ outcome[1] = "returned"
    /\ n_patients[1] >= 2
    /\ Range(admissions[1]) = {0, 1}
    /\ Len(result[1]) = n_patients[1]

\* the place of patient k in the output: the admitted first, each group in
\* index order
OutputPlace(adm, k) ==
    LET admitted == {j \in DOMAIN adm : adm[j] = 1}
        others == {j \in DOMAIN adm : adm[j] = 0}
    IN IF adm[k] = 1
       THEN Cardinality({j \in admitted : j <= k})
       ELSE Cardinality(admitted) + Cardinality({j \in others : j <= k})

\* C4: the output holds, for each patient k, exactly one entry, at the place
\* the grouping gives it (admitted patients first, non-admitted after, each
\* group in index order, not back in patient order): process_times[k] +
\* admit_delays[k] when admissions[k] = 1 and process_times[k] alone when
\* admissions[k] = 0.
C4_AdmittedThenNotAdmitted ==
    \A i \in Sims :
        outcome[i] = "returned" =>
            /\ Len(result[i]) = n_patients[i]
            /\ \A k \in 1 .. n_patients[i] :
                  result[i][OutputPlace(admissions[i], k)] =
                      IF admissions[i][k] = 1
                      THEN process_times[i][k] + admit_delays[i][k]
                      ELSE process_times[i][k]

\* a patient who was not admitted comes before one who was, and the output
\* has them the other way round
C4_Witness ==
    /\ outcome[1] = "returned"
    /\ n_patients[1] = 2
    /\ admissions[1] = <<0, 1>>
    /\ result[1] = <<process_times[1][2] + admit_delays[1][2],
                     process_times[1][1]>>
    /\ result[1][1] # result[1][2]

\* C5: under a valid configuration every value simulate returns is >= 0.
C5_NonNegative ==
    \A i \in Sims :
        (outcome[i] = "returned" /\ ValidConfiguration(params))
            => \A k \in DOMAIN result[i] : result[i][k] >= 0

\* an admitted patient whose delay is longer than the process time
C5_Witness ==
    /\ outcome[1] = "returned"
    /\ ValidConfiguration(params)
    /\ \E k \in DOMAIN admissions[1] :
          /\ admissions[1][k] = 1
          /\ admit_delays[1][k] > process_times[1][k]
    /\ \A k \in DOMAIN result[1] : result[1][k] >= 0

\* the spec's invalid inputs: a negative n_patients, a mean that is not
\* positive, a probability outside [0, 1]
InvalidInput(p, n) == n < 0 \/ ~ValidConfiguration(p)

\* simulator i is in a call of simulate or has finished one
Called(i) == pc[i] \notin {"new", "idle"} \/ outcome[i] # "none"

\* C6: a call of simulate with invalid input performs none of the three draws
\* and produces no output.
C6_RejectedBeforeAnyDraw ==
    \A i \in Sims :
        (Called(i) /\ InvalidInput(params, n_patients[i]))
            => (draws[i] = <<>> /\ outcome[i] # "returned")

\* the three draws of simulate(n), in order
ThreeDraws(n) == <<<<"process_times", n>>, <<"admissions", n>>,
                   <<"admit_delays", n>>>>

\* C8, as stated: every call of simulate(n), once finished, has performed
\* exactly the three draws, in order, each of n samples.
C8_EveryCallDrawsThrice ==
    \A i \in Sims : Finished(i) => draws[i] = ThreeDraws(n_patients[i])

\* C8, amended: the draws a call of simulate(n) has performed are, at every
\* point, the first ones of process times, admissions, admission delays, each
\* of n samples, and a call that returns has performed all three, whatever the
\* admissions draw came to.
C8_ThreeDrawsOfNInOrder ==
    \A i \in Sims :
        /\ Len(draws[i]) <= 3
        /\ draws[i] = SubSeq(ThreeDraws(n_patients[i]), 1, Len(draws[i]))
        /\ outcome[i] = "returned" => Len(draws[i]) = 3

\* a call of two or more patients returned with nobody admitted
C8_Witness ==
    /\ outcome[1] = "returned"
    /\ n_patients[1] >= 2
    /\ Range(admissions[1]) = {0}
    /\ draws[1] = ThreeDraws(n_patients[1])

\* the samples of n consecutive stream positions, from position `from` of the
\* stream that begins in state s0
StreamUniforms(s0, from, n) ==
    [k \in 1 .. n |-> Uniform((s0 + from + k - 1) % Period)]

\* the samples the draws of simulator i's current or last call have requested
Requested(i) == Len(draws[i]) * n_patients[i]

\* the stream position at which simulator i's current or last call began
EntryPosition(i) == (consumed[i] + Period * Requested(i) - Requested(i)) % Period

\* C9: the generator is never reset: its state is the seeded state moved on by
\* all the samples requested since construction, and the draws of a call are
\* the samples that follow, in the stream, those of all the calls before it.
C9_CallsContinueTheStream ==
    \A i \in Sims :
        pc[i] # "new" =>
            LET n == n_patients[i]
                e == EntryPosition(i)
                u1 == StreamUniforms(start[i], e, n)
                u2 == StreamUniforms(start[i], e + n, n)
                u3 == StreamUniforms(start[i], e + 2 * n, n)
            IN /\ rs[Generator(i)] = (start[i] + consumed[i]) % Period
               /\ Len(draws[i]) >= 1 =>
                     process_times[i] =
                         [k \in 1 .. n |->
                             params.mean_process_time * Quantile(u1[k])]
               /\ Len(draws[i]) >= 2 =>
                     admissions[i] =
                         [k \in 1 .. n |->
                             IF u2[k] < params.p_admit THEN 1 ELSE 0]
               /\ Len(draws[i]) >= 3 =>
                     admit_delays[i] =
                         [k \in 1 .. n |-> params.mean_dta * Quantile(u3[k])]

\* a later call returned draws that are not those of the stream's beginning
C9_Witness ==
    /\ outcome[1] = "returned"
    /\ n_patients[1] >= 2
    /\ EntryPosition(1) = 3 * n_patients[1]
    /\ process_times[1] #
          [k \in 1 .. n_patients[1] |->
              params.mean_process_time
                  * Quantile(StreamUniforms(start[1], 0, n_patients[1])[k])]

\* C3: every write to a field of a constructed ScenarioParameters raises
\* FrozenInstanceError and leaves all four fields as they were.
C3_WritesFail ==
    [][/\ params' = params
       /\ write' # write => write'.raised = "FrozenInstanceError"]_vars

\* the write of __main__ was tried and the parameters are the defaults still
C3_Witness ==
    /\ write = [field |-> "mean_process_time", raised |-> "FrozenInstanceError"]
    /\ params = Baseline

\* C2: two simulators constructed with the same seed on the same parameters,
\* each having run simulate(n) once with the same n, have the same outcome and
\* the same output, value by value.
C2_SameSeedSameOutput ==
    \A i, j \in Sims :
        (/\ Finished(i) /\ Finished(j)
         /\ seed[i] # <<>> /\ seed[i] = seed[j]
         /\ n_patients[i] = n_patients[j])
            => (outcome[i] = outcome[j] /\ result[i] = result[j])

\* both simulators were seeded alike and returned the same two or more values
C2_Witness ==
    /\ seed[1] # <<>> /\ seed[2] = seed[1]
    /\ outcome[1] = "returned" /\ outcome[2] = "returned"
    /\ n_patients[1] >= 2 /\ n_patients[2] = n_patients[1]
    /\ Range(admissions[1]) = {0, 1}
    /\ result[1] = result[2]

\* C7: two runs whose process times and admissions are equal and whose delays
\* agree for every admitted patient return the same output, whatever delays
\* were drawn for the patients who were not admitted.
C7_DiscardedDelaysDoNotShow ==
    \A i, j \in Sims :
        (/\ outcome[i] = "returned" /\ outcome[j] = "returned"
         /\ process_times[i] = process_times[j]
         /\ admissions[i] = admissions[j]
         /\ \A k \in DOMAIN admissions[i] :
               admissions[i][k] = 1 => admit_delays[i][k] = admit_delays[j][k])
            => result[i] = result[j]

\* two runs that differ only in the delay of a patient who was not admitted
C7_Witness ==
    /\ outcome[1] = "returned" /\ outcome[2] = "returned"
    /\ process_times[1] = process_times[2]
    /\ admissions[1] = admissions[2]
    /\ \E k \in DOMAIN admissions[1] :
          admissions[1][k] = 0 /\ admit_delays[1][k] # admit_delays[2][k]
    /\ \A k \in DOMAIN admissions[1] :
          admissions[1][k] = 1 => admit_delays[1][k] = admit_delays[2][k]
    /\ result[1] = result[2]

\* what simulate(n) returns when it runs alone from generator state s
SimulateAlone(s, p, n) ==
    LET d1 == SimulateEdProcessTimes(s, p, n)
        d2 == SimulateAdmission(d1.state, p, n)
        d3 == SimulateDtaTimes(d2.state, p, n)
    IN EdTimes(d1.samples, d2.samples, d3.samples)

\* C10: however the draws of two simulators on one shared ScenarioParameters
\* interleave, each returns what it would return running alone from the
\* generator state it was constructed with, and the fields of the shared
\* parameters never change.
C10_InstancesDoNotInterfere ==
    /\ [](\A i \in Sims :
             outcome[i] = "returned"
                 => result[i] = SimulateAlone(start[i], params, n_patients[i]))
    /\ [][params' = params]_vars

\* simulator 1 returned two or more values while simulator 2, constructed
\* with another generator state, was between its draws, and a write to the
\* shared parameters had been tried
C10_Witness ==
    /\ outcome[1] = "returned"
    /\ n_patients[1] >= 2
    /\ pc[2] = "admit_delays"
    /\ n_patients[2] >= 2
    /\ start[1] # start[2]
    /\ write.raised = "FrozenInstanceError"
    /\ result[1] = SimulateAlone(start[1], params, n_patients[1])

====
